---- MODULE Spec2Model ----
(***************************************************************************)
(* Model of alert_system.cpp: main() loads the configuration into globals  *)
(* and enters check_alerts(), the poll loop.  Every iteration calls        *)
(* fetch_data(), tests data.empty(), reads data[region].asString() and     *)
(* raises or clears the global alert_active flag, starting two detached    *)
(* threads (play_alert_sound, show_dialog) on each change.                 *)
(***************************************************************************)
EXTENDS Integers, Sequences, FiniteSets, TLC

VARIABLES
    pc,               \* position of the main thread: "main", "fetch", "sleep", "exit"
    term,             \* how the process ended ("none" while it is running)
    region,           \* global std::string region      (line 10)
    alert_on,         \* global std::string alert_on    (line 11)
    alert_off,        \* global std::string alert_off   (line 12)
    data_url,         \* global std::string data_url    (line 13)
    update_interval,  \* global int update_interval     (line 14)
    alert_active,     \* global bool alert_active       (line 17)
    tasks,            \* detached threads that have not returned yet
    log               \* history: one record per iteration of the while loop

vars == <<pc, term, region, alert_on, alert_off, data_url, update_interval, alert_active, tasks, log>>

-----------------------------------------------------------------------------
(* Bounds *)

\* number of loop iterations that are explored
MaxCycles == 4

-----------------------------------------------------------------------------
(* JSON values (jsoncpp Json::Value), as far as the program uses them *)

JNull == [type |-> "null"]
JStr(s) == [type |-> "string", s |-> s]
JObj(m) == [type |-> "object", members |-> m]
JArr(n) == [type |-> "array", size |-> n]
JInt(i) == [type |-> "int", i |-> i]

\* an exception leaving the callee
Throw(what) == [ok |-> FALSE, what |-> what]
Return(v) == [ok |-> TRUE, val |-> v]

\* Json::Value::empty(): null, an empty array and an empty object are empty
JsonEmpty(v) ==
    CASE v.type = "null" -> TRUE
      [] v.type = "object" -> DOMAIN v.members = {}
      [] v.type = "array" -> v.size = 0
      [] OTHER -> FALSE

\* Json::Value::operator[](const std::string&) on a non-const value: a null
\* value becomes an object and a missing member is created as null; any
\* other type fails the library's type assertion (Json::LogicError).
JsonIndex(v, key) ==
    CASE v.type = "null" -> Return(JNull)
      [] v.type = "object" ->
            IF key \in DOMAIN v.members THEN Return(v.members[key]) ELSE Return(JNull)
      [] OTHER -> Throw("logic_error")

\* Json::Value::asString(): null converts to "", arrays and objects do not convert
JsonAsString(v) ==
    CASE v.type = "string" -> Return(v.s)
      [] v.type = "null" -> Return("")
      [] OTHER -> Throw("logic_error")

\* Json::Value::asInt(): null converts to 0, strings, arrays and objects do not convert
JsonAsInt(v) ==
    CASE v.type = "int" -> Return(v.i)
      [] v.type = "null" -> Return(0)
      [] OTHER -> Throw("logic_error")

\* operator>>(std::istream&, Json::Value&): throws on text that is not JSON
JsonParse(body) ==
    IF body.wellformed THEN Return(body.doc) ELSE Throw("parse_error")

-----------------------------------------------------------------------------
(* The remote feed: what one HTTP transfer can deliver *)

\* status strings the feed reports for a region
FeedStatuses == {"full", "null", "no_data", "partial"}

\* text received into readBuffer: nothing, text that is not JSON, or a JSON document
EmptyBody == [len |-> 0, wellformed |-> FALSE, doc |-> JNull]
GarbageBody == [len |-> 1, wellformed |-> FALSE, doc |-> JNull]
DocBody(d) == [len |-> 1, wellformed |-> TRUE, doc |-> d]

\* values found under a region key
MemberValues == {JStr(s) : s \in FeedStatuses} \cup {JNull, JArr(0)}

FeedDocs ==
    {JNull, JObj(<<>>), JArr(1), JStr("full")}
        \cup {JObj([k \in {"kyiv"} |-> v]) : v \in MemberValues}
        \cup {JObj([k \in {"lviv"} |-> JStr("full")])}

FeedBodies == {EmptyBody, GarbageBody} \cup {DocBody(d) : d \in FeedDocs}

\* a transfer: curl's result code, the HTTP status, and the bytes handed to WriteCallback
TransportFailure == [res |-> "CURLE_ERR", http |-> 0, body |-> EmptyBody]

Responses ==
    {TransportFailure, [res |-> "CURLE_ERR", http |-> 200, body |-> GarbageBody]}
        \cup {[res |-> "CURLE_OK", http |-> h, body |-> b] : h \in {200, 500}, b \in FeedBodies}

\* an empty URL cannot be transferred from
ResponsesFor(url) == IF url = "" THEN {TransportFailure} ELSE Responses

\* fetch_data(): neither res nor the HTTP status is looked at; an empty
\* readBuffer gives a null value, anything else is parsed.
fetch_data(resp) ==
    LET readBuffer == resp.body
    IN  IF readBuffer.len = 0 THEN Return(JNull) ELSE JsonParse(readBuffer)

-----------------------------------------------------------------------------
(* check_alerts(): one iteration of the while loop *)

\* Decide with the clear branch taken on every status but "full"
DecideClearsOnUnknown(active, status) ==
    IF ~active /\ status = "full"
    THEN [active |-> TRUE, events |-> <<"Raise">>]
    ELSE IF active /\ status # "full"
         THEN [active |-> FALSE, events |-> <<"Clear">>]
         ELSE [active |-> active, events |-> <<>>]

\* Decide with two independent ifs and a clear condition that is always true
DecideNoElse(active, status) ==
    LET first == IF ~active /\ status = "full"
                 THEN [active |-> TRUE, events |-> <<"Raise">>]
                 ELSE [active |-> active, events |-> <<>>]
    IN  IF first.active /\ (status # "null" \/ status # "no_data")
        THEN [active |-> FALSE, events |-> first.events \o <<"Clear">>]
        ELSE first

\* Decide with the raise branch not looking at the flag
DecideRaisesAgain(active, status) ==
    IF status = "full"
    THEN [active |-> TRUE, events |-> <<"Raise">>]
    ELSE IF active /\ (status = "null" \/ status = "no_data")
         THEN [active |-> FALSE, events |-> <<"Clear">>]
         ELSE [active |-> active, events |-> <<>>]

\* Decide with the clear branch taken on "null" alone
DecideNullOnly(active, status) ==
    IF ~active /\ status = "full"
    THEN [active |-> TRUE, events |-> <<"Raise">>]
    ELSE IF active /\ status = "null"
         THEN [active |-> FALSE, events |-> <<"Clear">>]
         ELSE [active |-> active, events |-> <<>>]

\* Decide with an empty status taken for a clear report
DecideEmptyClears(active, status) ==
    IF ~active /\ status = "full"
    THEN [active |-> TRUE, events |-> <<"Raise">>]
    ELSE IF active /\ (status = "null" \/ status = "no_data" \/ status = "")
         THEN [active |-> FALSE, events |-> <<"Clear">>]
         ELSE [active |-> active, events |-> <<>>]

\* Decide with the raise branch not setting the flag
DecideForgetsFlag(active, status) ==
    IF ~active /\ status = "full"
    THEN [active |-> active, events |-> <<"Raise">>]
    ELSE IF active /\ (status = "null" \/ status = "no_data")
         THEN [active |-> FALSE, events |-> <<"Clear">>]
         ELSE [active |-> active, events |-> <<>>]

\* Decide with the clear branch taken on "no_data" alone
DecideNoDataOnly(active, status) ==
    IF ~active /\ status = "full"
    THEN [active |-> TRUE, events |-> <<"Raise">>]
    ELSE IF active /\ status = "no_data"
         THEN [active |-> FALSE, events |-> <<"Clear">>]
         ELSE [active |-> active, events |-> <<>>]

\* the if / else-if of lines 125-141: the new value of alert_active and the
\* notifications of this iteration, in program order
Decide(active, status) ==
    IF ~active /\ status = "full"
    THEN [active |-> TRUE, events |-> <<"Raise">>]
    ELSE IF active /\ (status = "null" \/ status = "no_data")
         THEN [active |-> FALSE, events |-> <<"Clear">>]
         ELSE [active |-> active, events |-> <<>>]

\* the two std::thread objects constructed for one notification, in program order
ThreadsOf(ev, on, off, cycle) ==
    IF ev = "Raise"
    THEN << [kind |-> "sound", arg |-> on, cycle |-> cycle],
            [kind |-> "dialog", arg |-> "MESSAGE_WARNING", cycle |-> cycle] >>
    ELSE << [kind |-> "sound", arg |-> off, cycle |-> cycle],
            [kind |-> "dialog", arg |-> "MESSAGE_INFO", cycle |-> cycle] >>

RECURSIVE ThreadsOfAll(_, _, _, _)
ThreadsOfAll(events, on, off, cycle) ==
    IF events = <<>> THEN <<>>
    ELSE ThreadsOf(Head(events), on, off, cycle) \o ThreadsOfAll(Tail(events), on, off, cycle)

\* the std::thread constructor throws std::system_error when the system
\* cannot start another thread: `avail` threads can still be started
NoLimit == 8
ThreadAvail == {0, 1, NoLimit}

Min(a, b) == IF a < b THEN a ELSE b
Range(seq) == {seq[i] : i \in DOMAIN seq}

\* the history record of an iteration that changed nothing
Unchanged(active) ==
    [result |-> "Failed", status |-> "", before |-> active, after |-> active,
     events |-> <<>>, started |-> <<>>, slept |-> FALSE]

\* Skip with the flag reset by the failed fetch
SkipResets(active) ==
    [pc |-> "fetch", term |-> "none", active |-> FALSE,
     entry |-> [Unchanged(active) EXCEPT !.after = FALSE]]

\* lines 119-122, data.empty(): the message is printed and `continue` starts
\* the next iteration; nothing else is done
Skip(active) ==
    [pc |-> "fetch", term |-> "none", active |-> active, entry |-> Unchanged(active)]

\* an exception nobody catches: std::terminate ends the process
Uncaught(active, what) ==
    [pc |-> "exit", term |-> what, active |-> active,
     entry |-> [Unchanged(active) EXCEPT !.result = "Threw"]]

\* Notify with the dialog handed to a later moment: only the sound thread is
\* started before the loop goes on
NotifyDialogLater(active, status, on, off, avail, cycle) ==
    LET d == Decide(active, status)
        want == ThreadsOfAll(d.events, on, off, cycle)
        got == SubSeq(want, 1, Min(1, Len(want)))
    IN  [pc |-> "sleep", term |-> "none", active |-> d.active,
         entry |-> [Unchanged(active) EXCEPT !.result = "Ok", !.status = status,
                                             !.after = d.active, !.events = d.events,
                                             !.started = got]]

\* lines 125-141 for a status that was read: the flag is assigned first, then
\* the threads are constructed one after the other
Notify(active, status, on, off, avail, cycle) ==
    LET d == Decide(active, status)
        want == ThreadsOfAll(d.events, on, off, cycle)
        got == SubSeq(want, 1, Min(avail, Len(want)))
        e == [Unchanged(active) EXCEPT !.result = "Ok", !.status = status, !.after = d.active,
                                       !.events = d.events, !.started = got]
    IN  IF Len(got) < Len(want)
        THEN [pc |-> "exit", term |-> "system_error", active |-> d.active, entry |-> e]
        ELSE [pc |-> "sleep", term |-> "none", active |-> d.active, entry |-> e]

\* Iteration with an empty result handled like a "no_data" report
IterationFailClears(active, fetched, key, on, off, avail, cycle) ==
    IF ~fetched.ok THEN Uncaught(active, fetched.what)
    ELSE IF JsonEmpty(fetched.val)
         THEN [Notify(active, "no_data", on, off, avail, cycle) EXCEPT
                  !.entry.result = "Failed", !.entry.status = ""]
    ELSE LET member == JsonIndex(fetched.val, key)
         IN  IF ~member.ok THEN Uncaught(active, member.what)
             ELSE LET str == JsonAsString(member.val)
                  IN  IF ~str.ok THEN Uncaught(active, str.what)
                      ELSE Notify(active, str.val, on, off, avail, cycle)

\* Iteration with the first iteration only recording the status it read
IterationQuietFirst(active, fetched, key, on, off, avail, cycle) ==
    IF ~fetched.ok THEN Uncaught(active, fetched.what)
    ELSE IF JsonEmpty(fetched.val) THEN Skip(active)
    ELSE LET member == JsonIndex(fetched.val, key)
         IN  IF ~member.ok THEN Uncaught(active, member.what)
             ELSE LET str == JsonAsString(member.val)
                  IN  IF ~str.ok THEN Uncaught(active, str.what)
                      ELSE IF cycle = 1
                           THEN [pc |-> "sleep", term |-> "none", active |-> active,
                                 entry |-> [Unchanged(active) EXCEPT !.result = "Ok",
                                                                     !.status = str.val]]
                           ELSE Notify(active, str.val, on, off, avail, cycle)

\* what the iteration does after fetch_data() returned or threw:
\* the next position, the exit reason, the flag and the history record
\* (with the threads started) of the iteration
Iteration(active, fetched, key, on, off, avail, cycle) ==
    IF ~fetched.ok THEN Uncaught(active, fetched.what)
    ELSE IF JsonEmpty(fetched.val) THEN Skip(active)
    ELSE LET member == JsonIndex(fetched.val, key)
         IN  IF ~member.ok THEN Uncaught(active, member.what)
             ELSE LET str == JsonAsString(member.val)
                  IN  IF ~str.ok THEN Uncaught(active, str.what)
                      ELSE Notify(active, str.val, on, off, avail, cycle)

-----------------------------------------------------------------------------
(* main(): the configuration file *)

BaseConfig ==
    [region |-> JStr("kyiv"), alert_on |-> JStr("on.mp3"), alert_off |-> JStr("off.mp3"),
     data_url |-> JStr("http://feed"), update_interval |-> JInt(2)]

Without(m, k) == [x \in (DOMAIN m) \ {k} |-> m[x]]

ConfigDocs ==
    { JObj(BaseConfig),
      JObj([BaseConfig EXCEPT !.region = JStr("")]),
      JObj(Without(BaseConfig, "region")),
      JObj([BaseConfig EXCEPT !.data_url = JStr("")]),
      JObj(Without(BaseConfig, "data_url")),
      JObj([BaseConfig EXCEPT !.update_interval = JInt(0)]),
      JObj(Without(BaseConfig, "update_interval")),
      JObj([BaseConfig EXCEPT !.update_interval = JStr("2")]),
      JArr(1) }

\* argv[1]: a file that cannot be opened, or its text
ConfigFiles ==
    {[readable |-> FALSE, body |-> EmptyBody], [readable |-> TRUE, body |-> GarbageBody]}
        \cup {[readable |-> TRUE, body |-> DocBody(d)] : d \in ConfigDocs}

\* config[name].asString() / .asInt()
ConfigString(config, name) ==
    LET member == JsonIndex(config, name)
    IN  IF member.ok THEN JsonAsString(member.val) ELSE member

ConfigInt(config, name) ==
    LET member == JsonIndex(config, name)
    IN  IF member.ok THEN JsonAsInt(member.val) ELSE member

\* main() up to the call of check_alerts(): where the main thread is next,
\* why the process ended if it did, and the globals
main(argc, file) ==
    LET globals == [pc |-> "exit", term |-> "none", region |-> "", alert_on |-> "",
                    alert_off |-> "", data_url |-> "", update_interval |-> 0]
        config == JsonParse(file.body)
    IN  IF argc < 2 THEN [globals EXCEPT !.term = "usage"]
        ELSE IF ~file.readable THEN [globals EXCEPT !.term = "open_failed"]
        ELSE IF ~config.ok THEN [globals EXCEPT !.term = config.what]
        ELSE LET r == ConfigString(config.val, "region")
                 on == ConfigString(config.val, "alert_on")
                 off == ConfigString(config.val, "alert_off")
                 url == ConfigString(config.val, "data_url")
                 int == ConfigInt(config.val, "update_interval")
             IN  IF ~r.ok THEN [globals EXCEPT !.term = r.what]
                 ELSE IF ~on.ok THEN [globals EXCEPT !.term = on.what]
                 ELSE IF ~off.ok THEN [globals EXCEPT !.term = off.what]
                 ELSE IF ~url.ok THEN [globals EXCEPT !.term = url.what]
                 ELSE IF ~int.ok THEN [globals EXCEPT !.term = int.what]
                 ELSE [pc |-> "fetch", term |-> "none", region |-> r.val, alert_on |-> on.val,
                       alert_off |-> off.val, data_url |-> url.val, update_interval |-> int.val]

-----------------------------------------------------------------------------
(* The state machine *)

Init ==
    /\ pc = "main"
    /\ term = "none"
    /\ region = ""
    /\ alert_on = ""
    /\ alert_off = ""
    /\ data_url = ""
    /\ update_interval = 0
    /\ alert_active = FALSE
    /\ tasks = {}
    /\ log = <<>>

\* main(), lines 161-180
Main ==
    /\ pc = "main"
    /\ \E argc \in {1, 2}, file \in ConfigFiles :
          LET m == main(argc, file)
          IN  /\ pc' = m.pc
              /\ term' = m.term
              /\ region' = m.region
              /\ alert_on' = m.alert_on
              /\ alert_off' = m.alert_off
              /\ data_url' = m.data_url
              /\ update_interval' = m.update_interval
    /\ UNCHANGED <<alert_active, tasks, log>>

\* check_alerts(), lines 118-141: one iteration up to the sleep or the continue
Poll ==
    /\ pc = "fetch"
    /\ Len(log) < MaxCycles
    /\ \E resp \in ResponsesFor(data_url), avail \in ThreadAvail :
          LET it == Iteration(alert_active, fetch_data(resp), region, alert_on, alert_off,
                              avail, Len(log) + 1)
          IN  /\ pc' = it.pc
              /\ term' = it.term
              /\ alert_active' = it.active
              /\ log' = Append(log, it.entry)
              /\ tasks' = IF it.pc = "exit" THEN {} ELSE tasks \cup Range(it.entry.started)
    /\ UNCHANGED <<region, alert_on, alert_off, data_url, update_interval>>

\* Sleep after joining the threads of the iteration instead of detaching them
SleepAfterJoin ==
    /\ pc = "sleep"
    /\ \A t \in tasks : t.cycle # Len(log)
    /\ pc' = "fetch"
    /\ log' = [log EXCEPT ![Len(log)].slept = TRUE]
    /\ UNCHANGED <<term, region, alert_on, alert_off, data_url, update_interval,
                   alert_active, tasks>>

\* check_alerts(), line 143: std::this_thread::sleep_for
Sleep ==
    /\ pc = "sleep"
    /\ pc' = "fetch"
    /\ log' = [log EXCEPT ![Len(log)].slept = TRUE]
    /\ UNCHANGED <<term, region, alert_on, alert_off, data_url, update_interval,
                   alert_active, tasks>>

\* PlaySound with the thread resetting the flag when the playback was started
PlaySoundResetsFlag ==
    /\ term = "none"
    /\ \E t \in tasks :
          /\ t.kind = "sound"
          /\ tasks' = tasks \ {t}
    /\ alert_active' = FALSE
    /\ UNCHANGED <<pc, term, region, alert_on, alert_off, data_url, update_interval, log>>

\* play_alert_sound() in its detached thread: the result of std::system is dropped
PlaySound ==
    /\ term = "none"
    /\ \E t \in tasks :
          /\ t.kind = "sound"
          /\ tasks' = tasks \ {t}
    /\ UNCHANGED <<pc, term, region, alert_on, alert_off, data_url, update_interval,
                   alert_active, log>>

\* show_dialog() in its detached thread: Gtk::Application::create initialises
\* GTK, which ends the process when no display can be opened; otherwise the
\* dialog is shown and app->run returns once the user has answered it
ShowDialog ==
    /\ term = "none"
    /\ \E t \in tasks, display \in BOOLEAN :
          /\ t.kind = "dialog"
          /\ IF display
             THEN /\ tasks' = tasks \ {t}
                  /\ UNCHANGED <<pc, term>>
             ELSE /\ tasks' = {}
                  /\ pc' = "exit"
                  /\ term' = "cannot_open_display"
    /\ UNCHANGED <<region, alert_on, alert_off, data_url, update_interval, alert_active, log>>

Next == Main \/ Poll \/ Sleep \/ PlaySound \/ ShowDialog

Spec == Init /\ [][Next]_vars

\* check_alerts() entered by main() with a complete configuration
LoopInit ==
    LET m == main(2, [readable |-> TRUE, body |-> DocBody(JObj(BaseConfig))])
    IN  /\ pc = m.pc
        /\ term = m.term
        /\ region = m.region
        /\ alert_on = m.alert_on
        /\ alert_off = m.alert_off
        /\ data_url = m.data_url
        /\ update_interval = m.update_interval
        /\ alert_active = FALSE
        /\ tasks = {}
        /\ log = <<>>

LoopNext == Poll \/ Sleep \/ PlaySound \/ ShowDialog

\* the main thread keeps running; nothing is assumed about the detached
\* threads, which may be delayed for ever
FairLoop == LoopInit /\ [][LoopNext]_vars /\ WF_vars(Poll) /\ WF_vars(Sleep)

\* check_alerts(), lines 118-141, with the loop followed without end and a
\* transfer out of `responses`: the history keeps the last iteration only,
\* together with the transfer it saw, and the threads of different iterations
\* are not told apart
PollFrom(responses) ==
    /\ pc = "fetch"
    /\ \E resp \in responses, avail \in ThreadAvail :
          LET it == Iteration(alert_active, fetch_data(resp), region, alert_on, alert_off,
                              avail, 1)
          IN  /\ pc' = it.pc
              /\ term' = it.term
              /\ alert_active' = it.active
              /\ log' = << it.entry @@ [transfer |-> resp] >>
              /\ tasks' = IF it.pc = "exit" THEN {} ELSE tasks \cup Range(it.entry.started)
    /\ UNCHANGED <<region, alert_on, alert_off, data_url, update_interval>>

PollForever == PollFrom(ResponsesFor(data_url))

ForeverNext == PollForever \/ Sleep \/ PlaySound \/ ShowDialog

\* the unbounded loop with a main thread that keeps running
FairForever ==
    LoopInit /\ [][ForeverNext]_vars /\ WF_vars(PollForever) /\ WF_vars(Sleep)

\* the transfers whose document reports "null" or "no_data" for the region
QuietResponses ==
    {resp \in ResponsesFor(data_url) :
        /\ resp.body.wellformed
        /\ resp.body.doc.type = "object"
        /\ region \in DOMAIN resp.body.doc.members
        /\ resp.body.doc.members[region] \in {JStr("null"), JStr("no_data")}}

\* an iteration of the unbounded loop whose fetch reads "null" or "no_data"
QuietPoll == PollFrom(QuietResponses)

\* the unbounded loop with a feed that goes on to deliver "null" or "no_data"
\* to a successful fetch again and again, as long as the process runs
QuietForever == FairForever /\ SF_vars(QuietPoll)

-----------------------------------------------------------------------------
(* Properties *)

Last(seq) == seq[Len(seq)]

\* the iteration raised / cleared the alert according to its record
IsRaise(e) == e.result = "Ok" /\ ~e.before /\ e.status = "full"
IsClear(e) == e.result = "Ok" /\ e.before /\ e.status \in {"null", "no_data"}

\* C1: alert_active starts false; an iteration changes it only from false to
\* true after a successful fetch of "full", or from true to false after a
\* successful fetch of "null" or "no_data"; every other iteration leaves it
\* as it was and notifies nobody.
C1_AlertTransitions ==
    /\ (log = <<>> => alert_active = FALSE)
    /\ \A i \in DOMAIN log :
          LET e == log[i]
          IN  /\ e.before = (IF i = 1 THEN FALSE ELSE log[i - 1].after)
              /\ (i = Len(log) => alert_active = e.after)
              /\ (e.before # e.after) => ((IsRaise(e) /\ e.after) \/ (IsClear(e) /\ ~e.after))
              /\ ~(IsRaise(e) \/ IsClear(e)) =>
                    (e.after = e.before /\ e.events = <<>> /\ e.started = <<>>)

\* C1 witness: a raise, then an unknown status and a repeated "full" while
\* active, then a clear
C1_Witness ==
    /\ Len(log) >= 4
    /\ IsRaise(log[1])
    /\ log[2].result = "Ok" /\ log[2].status = "partial"
    /\ log[3].result = "Ok" /\ log[3].status = "full"
    /\ IsClear(log[4])
    /\ ~alert_active

RECURSIVE EventsOf(_)
EventsOf(l) == IF l = <<>> THEN <<>> ELSE Head(l).events \o EventsOf(Tail(l))

\* the records of the iterations whose fetch produced a status
RECURSIVE Successful(_)
Successful(l) ==
    IF l = <<>> THEN <<>>
    ELSE IF Head(l).result = "Ok" THEN <<Head(l)>> \o Successful(Tail(l))
    ELSE Successful(Tail(l))

\* the notifications of a loop that sees exactly the statuses of `l`, one per iteration
RECURSIVE Replay(_, _)
Replay(l, active) ==
    IF l = <<>> THEN <<>>
    ELSE LET d == Decide(active, Head(l).status)
         IN  d.events \o Replay(Tail(l), d.active)

\* C2: with failed fetches interleaved anywhere, every change of alert_active
\* comes with exactly one notification of the matching kind in the same
\* iteration (its threads are those of that kind), an iteration without a
\* change notifies nobody, and the notifications are those of the same feed
\* without the failed iterations.
C2_OneNotificationPerTransition ==
    /\ \A i \in DOMAIN log :
          LET e == log[i]
              kind == IF e.after THEN "Raise" ELSE "Clear"
          IN  /\ (e.before # e.after) =>
                    /\ e.events = <<kind>>
                    /\ Len(e.started) <= 2
                    /\ \A k \in DOMAIN e.started :
                          e.started[k] = ThreadsOf(kind, alert_on, alert_off, i)[k]
              /\ (e.before = e.after) => (e.events = <<>> /\ e.started = <<>>)
    /\ EventsOf(log) = Replay(Successful(log), FALSE)

\* C2 witness: failed fetches before the raise and between the raise and the clear
C2_Witness ==
    /\ Len(log) >= 4
    /\ log[1].result = "Failed"
    /\ IsRaise(log[2]) /\ Len(log[2].started) = 2
    /\ log[3].result = "Failed"
    /\ IsClear(log[4]) /\ Len(log[4].started) = 2

\* C3: an iteration whose fetch failed leaves alert_active as it was and
\* starts no thread.
C3_FetchFailureIsolation ==
    [][(Len(log') = Len(log) + 1 /\ Last(log').result = "Failed") =>
          /\ alert_active' = alert_active
          /\ tasks' = tasks
          /\ Last(log').events = <<>>
          /\ Last(log').started = <<>>]_vars

\* C3 witness: a fetch failed while the alert was active and its threads were running
C3_Witness ==
    /\ Len(log) >= 2
    /\ Last(log).result = "Failed"
    /\ Last(log).before
    /\ alert_active
    /\ Cardinality(tasks) = 2

\* C4: between two consecutive fetches the loop sleeps once, after a failed
\* fetch as after a successful one.
C4_SleepBetweenFetches ==
    \A i \in DOMAIN log : i < Len(log) => log[i].slept

\* C5: an iteration notifies at most once: never a raise and a clear, never
\* the same notification twice, so at most the two threads of one notification.
C5_AtMostOneEventPerCycle ==
    \A i \in DOMAIN log :
        LET e == log[i]
        IN  /\ Len(e.events) <= 1
            /\ Len(e.started) <= 2
            /\ \A k, l \in DOMAIN e.started : k # l => e.started[k].kind # e.started[l].kind
            /\ \/ Range(e.started) \subseteq Range(ThreadsOf("Raise", alert_on, alert_off, i))
               \/ Range(e.started) \subseteq Range(ThreadsOf("Clear", alert_on, alert_off, i))

\* C5 witness: a raise and a clear, each with its two threads, in different iterations
C5_Witness ==
    \E i, j \in DOMAIN log :
        /\ log[i].events = <<"Raise">> /\ Len(log[i].started) = 2
        /\ log[j].events = <<"Clear">> /\ Len(log[j].started) = 2

\* C6: whatever the transfer delivers, fetching and reading the status never
\* throws: once the loop has started the process is not ended by an exception
\* of the parser or of the JSON value.
C6_FetcherNeverThrows ==
    /\ \A i \in DOMAIN log : log[i].result # "Threw"
    /\ (log # <<>>) => term \notin {"parse_error", "logic_error"}

\* C7: while the process runs, every notification is followed by the sleep
\* and by the next fetch of the main thread (for the iterations explored),
\* although the threads it started may never make a step.
C7_NotifyDoesNotBlock ==
    []<>(\/ term # "none"
         \/ \A i \in DOMAIN log :
               (log[i].events # <<>> /\ i < MaxCycles) => (log[i].slept /\ i < Len(log)))

\* C7 witness: the fetch after a raise was made while both threads of the
\* raise had not made a step
C7_Witness ==
    \E i \in DOMAIN log :
        /\ i < Len(log)
        /\ log[i].events = <<"Raise">>
        /\ Range(log[i].started) \subseteq tasks
        /\ Len(log[i].started) = 2
        /\ term = "none"

\* C8: a notification that fails (the sound cannot be played, no display, a
\* thread cannot be started) never ends the process.
C8_NotificationFailureContained ==
    term \notin {"system_error", "cannot_open_display"}

\* C9: with update_interval <= 0 or an empty or missing region or data_url
\* the loop is never entered and nothing is fetched.
C9_FailFast ==
    (pc \in {"fetch", "sleep"} \/ log # <<>>) =>
        (update_interval > 0 /\ region # "" /\ data_url # "")

\* the decision rules as the design states them
SpecDecide(current, status) ==
    IF current = "Inactive" /\ status = "full"
    THEN [next |-> "Active", event |-> "Raise"]
    ELSE IF current = "Active" /\ status \in {"null", "no_data"}
         THEN [next |-> "Inactive", event |-> "Clear"]
         ELSE [next |-> current, event |-> "None"]

\* left fold of SpecDecide over a feed: the final state and the event of every cycle
RECURSIVE SpecFold(_, _)
SpecFold(current, feed) ==
    IF feed = <<>> THEN [state |-> current, events |-> <<>>]
    ELSE LET d == SpecDecide(current, Head(feed))
             rest == SpecFold(d.next, Tail(feed))
         IN  [state |-> rest.state, events |-> <<d.event>> \o rest.events]

\* the notification of each iteration, "None" when there was none
PerCycleEvents(l) ==
    [i \in DOMAIN l |->
        IF l[i].events = <<>> THEN "None"
        ELSE IF Len(l[i].events) = 1 THEN l[i].events[1] ELSE "Many"]

\* C10: when every fetch so far produced a status, the events of the
\* iterations and the value of alert_active are the left fold of the decision
\* rules over the statuses, from Inactive; the feed no_data, full, full, null
\* gives None, Raise, None, Clear and ends Inactive.
C10_FoldOfDecide ==
    (\A i \in DOMAIN log : log[i].result = "Ok") =>
        LET feed == [i \in DOMAIN log |-> log[i].status]
            fold == SpecFold("Inactive", feed)
        IN  /\ PerCycleEvents(log) = fold.events
            /\ alert_active = (fold.state = "Active")
            /\ (feed = <<"no_data", "full", "full", "null">> =>
                    /\ PerCycleEvents(log) = <<"None", "Raise", "None", "Clear">>
                    /\ ~alert_active)

\* C10 witness: the four iterations of the scenario have run
C10_Witness ==
    /\ Len(log) = 4
    /\ \A i \in DOMAIN log : log[i].result = "Ok"
    /\ [i \in DOMAIN log |-> log[i].status] = <<"no_data", "full", "full", "null">>
    /\ region = "kyiv"

\* C11: a status "full" read while inactive sets the flag and raises; "null"
\* and "no_data" read while active reset the flag and clear; the flag changes
\* and an event is emitted in these three cases only.
C11_TransitionCompleteness ==
    \A i \in DOMAIN log :
        LET e == log[i]
        IN  e.result = "Ok" =>
              /\ (~e.before /\ e.status = "full") => (e.after /\ e.events = <<"Raise">>)
              /\ (e.before /\ e.status = "null") => (~e.after /\ e.events = <<"Clear">>)
              /\ (e.before /\ e.status = "no_data") => (~e.after /\ e.events = <<"Clear">>)
              /\ (e.after # e.before \/ e.events # <<>>) =>
                    \/ (~e.before /\ e.status = "full")
                    \/ (e.before /\ e.status \in {"null", "no_data"})
              /\ (i = Len(log) => alert_active = e.after)

\* C11 witness: a raise, a clear on "null", a raise and a clear on "no_data"
C11_Witness ==
    \E i, j, k \in DOMAIN log :
        /\ ~log[i].before /\ log[i].status = "full" /\ log[i].events = <<"Raise">>
        /\ log[j].before /\ log[j].status = "null" /\ log[j].events = <<"Clear">>
        /\ log[k].before /\ log[k].status = "no_data" /\ log[k].events = <<"Clear">>

\* C12: every other pair of flag and status does nothing: "null" and
\* "no_data" while inactive, "full" while active, and a status that is none of
\* the three ("partial", or "" for a document without the region) in both states.
C12_NoOp ==
    \A i \in DOMAIN log :
        LET e == log[i]
            settled == \/ (~e.before /\ e.status \in {"null", "no_data"})
                       \/ (e.before /\ e.status = "full")
            unknown == e.status \notin {"full", "null", "no_data"}
        IN  (e.result = "Ok" /\ (settled \/ unknown)) =>
              /\ e.after = e.before
              /\ e.events = <<>>
              /\ e.started = <<>>
              /\ (i = Len(log) => alert_active = e.before)

\* C12 witness: "" and "null" while inactive, "full" and "partial" while active
C12_Witness ==
    \E i, j \in DOMAIN log :
        /\ log[i].result = "Ok" /\ ~log[i].before /\ log[i].status \in {"", "null"}
        /\ log[j].result = "Ok" /\ log[j].before /\ log[j].status = "full"
        /\ Last(log).result = "Ok" /\ Last(log).before /\ Last(log).status = "partial"
        /\ alert_active

\* the transfer delivered a JSON document that is an object with the region's key
HasRegionField(t) ==
    /\ t.body.len > 0
    /\ t.body.wellformed
    /\ t.body.doc.type = "object"
    /\ region \in DOMAIN t.body.doc.members

\* C13: an iteration reads a status exactly when the transfer succeeded with a
\* 2xx response whose body is a JSON document holding the region's field; on
\* a transport error, another response code, a malformed body or a missing
\* field the fetch has failed and no status reaches the decision.
C13_FetchClassification ==
    log # <<>> =>
        LET e == Last(log)
            good == /\ e.transfer.res = "CURLE_OK"
                    /\ e.transfer.http = 200
                    /\ HasRegionField(e.transfer)
        IN  /\ e.result = "Ok" <=> good
            /\ ~good => e.result = "Failed"

\* C14: threads are started in the order of the iterations: the threads
\* started in a step belong to the newest iteration and every thread still
\* running is older or of that iteration; when a later iteration begins, both
\* threads of every earlier notification have been started.
C14_DispatchInCycleOrder ==
    /\ [](\A i \in DOMAIN log :
            /\ \A k \in DOMAIN log[i].started : log[i].started[k].cycle = i
            /\ (i < Len(log) /\ log[i].events # <<>>) => Len(log[i].started) = 2)
    /\ [](\A t \in tasks : t.cycle \in DOMAIN log /\ t \in Range(log[t.cycle].started))
    /\ [][\A t \in tasks' \ tasks :
            /\ t.cycle = Len(log')
            /\ Len(log') = Len(log) + 1
            /\ \A u \in tasks : u.cycle < t.cycle]_vars

\* C14 witness: a thread of a later notification has returned while a thread
\* of an earlier one is still running
C14_Witness ==
    \E i, j \in DOMAIN log :
        /\ i < j
        /\ Len(log[i].started) = 2
        /\ Len(log[j].started) = 2
        /\ Range(log[i].started) \cap tasks # {}
        /\ ~(Range(log[j].started) \subseteq tasks)
        /\ term = "none"

\* C15: the loop has no terminal state: once check_alerts() runs, the main
\* thread is always at a fetch or in its sleep, whatever the last fetch gave
\* and whatever threads are outstanding, so that another fetch follows.
C15_NoTerminalState ==
    pc \in {"fetch", "sleep"} /\ term = "none"

\* C16: alert_active is changed by the main thread only, in the step of an
\* iteration, from the value that iteration saw; a step of a detached thread
\* leaves it as it is, however the threads are interleaved with the loop.
C16_OnlyPollerMutates ==
    [][/\ (alert_active' # alert_active) =>
             /\ pc = "fetch"
             /\ Len(log') = Len(log) + 1
             /\ Last(log').before = alert_active
             /\ Last(log').after = alert_active'
       /\ (log' = log /\ tasks' # tasks) => alert_active' = alert_active]_vars

\* C16 witness: the flag was cleared by the loop while both threads of the
\* raise were still outstanding
C16_Witness ==
    \E i, j \in DOMAIN log :
        /\ i < j
        /\ log[i].events = <<"Raise">>
        /\ Len(log[i].started) = 2
        /\ Range(log[i].started) \subseteq tasks
        /\ log[j].events = <<"Clear">>
        /\ ~alert_active

\* C17: what an iteration decides depends on the flag and the status alone:
\* two iterations of a run that saw the same flag and the same status among
\* "full", "null", "no_data" left the same flag and emitted the same event,
\* whatever their number, the failed fetches before them and the threads
\* outstanding at the time.
C17_DecisionDependsOnInputsOnly ==
    \A i, j \in DOMAIN log :
        (/\ log[i].result = "Ok"
         /\ log[j].result = "Ok"
         /\ log[i].status \in {"full", "null", "no_data"}
         /\ log[i].status = log[j].status
         /\ log[i].before = log[j].before) =>
            /\ log[i].after = log[j].after
            /\ log[i].events = log[j].events

\* C17 witness: "full" read while inactive in the first iteration and again
\* after a clear and a failed fetch, with threads of the first raise still running
C17_Witness ==
    /\ Len(log) = 4
    /\ IsRaise(log[1])
    /\ IsClear(log[2])
    /\ log[3].result = "Failed"
    /\ IsRaise(log[4])
    /\ Range(log[1].started) \cap tasks # {}

\* C18: the events of a run alternate, Raise first: never two raises without a
\* clear between them, never a clear before the first raise; and alert_active
\* is true exactly when the last event is a raise.
C18_NoDuplicateAlerts ==
    LET ev == EventsOf(log)
    IN  /\ \A k \in DOMAIN ev : ev[k] = (IF k % 2 = 1 THEN "Raise" ELSE "Clear")
        /\ alert_active <=> (ev # <<>> /\ Last(ev) = "Raise")

\* C18 witness: raise, clear and raise again, with repeated "full" reports in between
C18_Witness ==
    /\ EventsOf(log) = <<"Raise", "Clear", "Raise">>
    /\ Len(log) = 4
    /\ \E i \in DOMAIN log : log[i].result = "Ok" /\ log[i].before /\ log[i].status = "full"
    /\ alert_active

\* C19: a successful fetch of "null" or "no_data" while the alert is active
\* clears it in the same iteration; so when such fetches keep succeeding, an
\* active alert leads to the flag being false with the clear dispatched, as
\* long as the process runs, whatever failed fetches and unknown statuses
\* came while it was active.
C19_NoMissedClears ==
    /\ [][(/\ pc = "fetch"
           /\ log' # log
           /\ alert_active
           /\ log'[Len(log')].result = "Ok"
           /\ log'[Len(log')].status \in {"null", "no_data"}) =>
              (~alert_active' /\ log'[Len(log')].events = <<"Clear">>)]_vars
    /\ alert_active ~> (\/ term # "none"
                        \/ (~alert_active /\ log # <<>> /\ Last(log).events = <<"Clear">>))

\* C19 witness: the alert was active and a fetch of "no_data" has cleared it
C19_Witness ==
    /\ log # <<>>
    /\ Last(log).before
    /\ Last(log).result = "Ok"
    /\ Last(log).status = "no_data"
    /\ Last(log).events = <<"Clear">>
    /\ Len(Last(log).started) = 2
    /\ ~alert_active
    /\ term = "none"

\* C20: every notification starts exactly two threads, the sound and the
\* dialog of its kind: alert_on and a warning dialog for a raise, alert_off
\* and an informational dialog for a clear; never one thread alone, never a
\* thread of the other kind; and the flag already has its new value then.
C20_TwoTasksPerDispatch ==
    \A i \in DOMAIN log :
        LET e == log[i]
        IN  e.events # <<>> =>
              /\ Len(e.events) = 1
              /\ e.started = ThreadsOf(e.events[1], alert_on, alert_off, i)
              /\ Len(e.started) = 2
              /\ e.started[1].kind = "sound"
              /\ e.started[2].kind = "dialog"
              /\ e.events[1] = "Raise" =>
                    (e.started[1].arg = alert_on /\ e.started[2].arg = "MESSAGE_WARNING")
              /\ e.events[1] = "Clear" =>
                    (e.started[1].arg = alert_off /\ e.started[2].arg = "MESSAGE_INFO")
              /\ e.after = (e.events[1] = "Raise")

====
